---------------------------- MODULE Spec2Model ----------------------------
(* Model of NetworkAnalyzer (src/src/network_path_analysis.py): the graph   *)
(* builder, the breadth-first path enumerator, the distance calculator, the *)
(* matrix assembler and the paths file.                                     *)
(*                                                                          *)
(* Strings are sequences of one-character strings, so that formatting a key *)
(* ("a" + "," + "b"), splitting it again and the natural sort key are       *)
(* computed character by character as Python computes them.  Python dicts   *)
(* keep insertion order; a dict is a sequence of <<key, value>> entries.    *)
EXTENDS Integers, Sequences, FiniteSets, TLC

(***************************************************************************)
(* Bounds of the model.                                                    *)
(***************************************************************************)
\* At most this many links are loaded from the network file.
MaxLinks == 3

\* Link lengths (floats >= 0 in the code).  Even integers, so that the
\* halving of compute_path_distance is exact in integer arithmetic.
Lengths == {2, 4}

\* One length for every link, where the lengths do not matter.
UnitLength == {2}

\* Link identifiers.  "L10" sorts after "L2" naturally and before it
\* lexicographically; "L2" and "l2" have equal sort keys; "a1" sorts before
\* "L2" only when case is ignored.
IdOrder ==
    << <<"L", "1", "0">>, <<"L", "2">>, <<"l", "2">>, <<"a", "1">> >>

\* Link identifiers that contain the key separator of the paths file.
CommaIdOrder ==
    << <<"a">>, <<"a", ",", "a">>, <<"b">>, <<"b", ",">> >>

(***************************************************************************)
(* Characters and strings.                                                 *)
(***************************************************************************)
Digits == <<"0", "1", "2", "3", "4", "5", "6", "7", "8", "9">>

\* str.isdigit() / the class [0-9] for one character.
IsDigit(c) == \E i \in 1..10 : Digits[i] = c

\* int() of one digit character.
DigitVal(c) == (CHOOSE i \in 1..10 : Digits[i] = c) - 1

\* Code point of a character (the order Python compares strings by).
Ord(c) ==
    CASE c = "," -> 44
      [] IsDigit(c) -> 48 + DigitVal(c)
      [] c = "A" -> 65
      [] c = "B" -> 66
      [] c = "L" -> 76
      [] c = "a" -> 97
      [] c = "b" -> 98
      [] c = "l" -> 108

\* str.lower() of one character.
LowerChar(c) ==
    CASE c = "A" -> "a"
      [] c = "B" -> "b"
      [] c = "L" -> "l"
      [] OTHER -> c

\* str.lower()
Lower(s) == [i \in 1..Len(s) |-> LowerChar(s[i])]

\* int(t) of a run of decimal digits.
RECURSIVE ParseInt(_)
ParseInt(t) ==
    IF t = <<>> THEN 0
    ELSE 10 * ParseInt(SubSeq(t, 1, Len(t) - 1)) + DigitVal(t[Len(t)])

\* str(idx) of a natural number.
RECURSIVE ToStr(_)
ToStr(n) ==
    IF n < 10 THEN <<Digits[n + 1]>>
    ELSE ToStr(n \div 10) \o <<Digits[(n % 10) + 1]>>

\* Python's < on two strings: lexicographic by code point.
RECURSIVE StrLess(_, _)
StrLess(s, t) ==
    IF t = <<>> THEN FALSE
    ELSE IF s = <<>> THEN TRUE
    ELSE IF s[1] # t[1] THEN Ord(s[1]) < Ord(t[1])
    ELSE StrLess(Tail(s), Tail(t))

\* key.split(','): the pieces between the separators, in order.
RECURSIVE SplitFrom(_, _, _)
SplitFrom(s, sep, cur) ==
    IF s = <<>> THEN <<cur>>
    ELSE IF s[1] = sep THEN <<cur>> \o SplitFrom(Tail(s), sep, <<>>)
    ELSE SplitFrom(Tail(s), sep, Append(cur, s[1]))

Split(s, sep) == SplitFrom(s, sep, <<>>)

(***************************************************************************)
(* Natural sort key of create_distance_matrices.                           *)
(***************************************************************************)
\* re.split('([0-9]+)', x): alternating non-digit and digit runs, starting
\* and ending with a (possibly empty) non-digit run.
RECURSIVE ReSplitFrom(_, _, _)
ReSplitFrom(s, cur, inDigits) ==
    IF s = <<>> THEN (IF inDigits THEN <<cur, <<>>>> ELSE <<cur>>)
    ELSE IF IsDigit(s[1]) = inDigits
         THEN ReSplitFrom(Tail(s), Append(cur, s[1]), inDigits)
         ELSE <<cur>> \o ReSplitFrom(Tail(s), <<s[1]>>, ~inDigits)

ReSplit(x) == ReSplitFrom(x, <<>>, FALSE)

\* t.isdigit() for a run: non-empty and all characters digits.
RunIsDigit(t) == t # <<>> /\ \A i \in 1..Len(t) : IsDigit(t[i])

\* int(t) if t.isdigit() else t.lower()
KeyToken(t) ==
    IF RunIsDigit(t) THEN [isint |-> TRUE, int |-> ParseInt(t), str |-> <<>>]
    ELSE [isint |-> FALSE, int |-> 0, str |-> Lower(t)]

\* The sort key: lambda x: [int(t) if t.isdigit() else t.lower() for t in ...]
NaturalKey(x) == [i \in 1..Len(ReSplit(x)) |-> KeyToken(ReSplit(x)[i])]

\* Python's < on two key elements.  Elements at the same position of two
\* keys have the same type (strings at odd, integers at even positions).
TokenLess(a, b) ==
    IF a.isint THEN a.int < b.int ELSE StrLess(a.str, b.str)

\* Python's < on two lists: the first differing element decides, otherwise
\* the shorter list is smaller.
RECURSIVE KeyLess(_, _)
KeyLess(k1, k2) ==
    IF k2 = <<>> THEN FALSE
    ELSE IF k1 = <<>> THEN TRUE
    ELSE IF k1[1] # k2[1] THEN TokenLess(k1[1], k2[1])
    ELSE KeyLess(Tail(k1), Tail(k2))

\* Insert x after every element whose key is not greater (stable).
RECURSIVE InsertSorted(_, _)
InsertSorted(sorted, x) ==
    IF sorted = <<>> THEN <<x>>
    ELSE IF KeyLess(NaturalKey(x), NaturalKey(sorted[1]))
         THEN <<x>> \o sorted
         ELSE <<sorted[1]>> \o InsertSorted(Tail(sorted), x)

RECURSIVE StableSort(_)
StableSort(xs) ==
    IF xs = <<>> THEN <<>>
    ELSE InsertSorted(StableSort(SubSeq(xs, 1, Len(xs) - 1)), xs[Len(xs)])

\* A plausible slip: the identifiers are left in loading order.
UnsortedLinks(xs) == xs

\* sorted(self.links.keys(), key=...): Python's sort is stable.
SortedLinks(xs) == StableSort(xs)


(***************************************************************************)
(* Python dicts: insertion-ordered sequences of <<key, value>> entries.    *)
(***************************************************************************)
DictKeys(d) == [i \in 1..Len(d) |-> d[i][1]]

DictValues(d) == [i \in 1..Len(d) |-> d[i][2]]

DictHas(d, k) == \E i \in 1..Len(d) : d[i][1] = k

DictGet(d, k) == d[CHOOSE i \in 1..Len(d) : d[i][1] = k][2]

\* d[k] = v: an existing key keeps its position, a new key goes last.
DictSet(d, k, v) ==
    IF DictHas(d, k)
    THEN [i \in 1..Len(d) |-> IF d[i][1] = k THEN <<k, v>> ELSE d[i]]
    ELSE Append(d, <<k, v>>)

\* A dict comprehension {f(e): g(e) for e in items}, given the entries.
RECURSIVE DictFrom(_)
DictFrom(entries) ==
    IF entries = <<>> THEN <<>>
    ELSE DictSet(DictFrom(SubSeq(entries, 1, Len(entries) - 1)),
                 entries[Len(entries)][1], entries[Len(entries)][2])

SeqToSet(s) == {s[i] : i \in 1..Len(s)}

(***************************************************************************)
(* The network file: what load_network can read.                           *)
(***************************************************************************)
RECURSIVE SeqMax(_)
SeqMax(e) ==
    IF e = <<>> THEN 0
    ELSE IF e[Len(e)] > SeqMax(SubSeq(e, 1, Len(e) - 1))
         THEN e[Len(e)] ELSE SeqMax(SubSeq(e, 1, Len(e) - 1))

\* The end nodes of k link ends, nodes named 1, 2, ... in order of first
\* appearance.  The code uses node identifiers only as dict keys and in
\* equality tests, so every network is one of these up to node names.
RECURSIVE NodeSeqs(_)
NodeSeqs(k) ==
    IF k = 0 THEN {<<>>}
    ELSE UNION { {Append(e, v) : v \in 1..(SeqMax(e) + 1)}
                 : e \in NodeSeqs(k - 1) }

\* The most links a project with identifiers of this list can hold.
MaxLoaded(order) == IF MaxLinks < Len(order) THEN MaxLinks ELSE Len(order)

\* The first n identifiers of a list, for every n the bound allows.
Prefixes(order) == {SubSeq(order, 1, n) : n \in 0..MaxLoaded(order)}

\* Up to MaxLinks distinct identifiers of a list, in every order.
Arrangements(order) ==
    UNION { {s \in [1..n -> SeqToSet(order)] :
                \A i, j \in 1..n : i # j => s[i] # s[j]}
            : n \in 0..MaxLoaded(order) }

\* NetworkLink(id, start_node, end_node, length)
NetworkLink(id, s, e, len) ==
    [id |-> id, start_node |-> s, end_node |-> e, length |-> len]

(***************************************************************************)
(* State.                                                                  *)
(***************************************************************************)
VARIABLES
    pc,            \* position in analyze_network / find_all_paths
    links,         \* self.links: dict id -> NetworkLink
    link_indices,  \* self.link_indices: dict project index -> id
    graph,         \* find_all_paths: graph = self._build_graph()
    pair_index,    \* position of the for loop over permutations(keys, 2)
    queue,         \* bfs_paths: queue of (current_node, path)
    visited,       \* bfs_paths: set of (current_node, neighbor)
    found,         \* bfs_paths: the local list `paths`
    paths,         \* self.paths: dict (source, target) -> list of paths
    file,          \* the paths file: dict "source,target" -> list of paths
    distances,     \* self.distances: dict (source, target) -> distance
    id_matrix,     \* the identifier-indexed DataFrame
    index_matrix,  \* the index-indexed DataFrame
    index_to_id    \* the index -> identifier mapping file

vars == <<pc, links, link_indices, graph, pair_index, queue, visited, found,
          paths, file, distances, id_matrix, index_matrix, index_to_id>>

(***************************************************************************)
(* Graph Builder.                                                          *)
(***************************************************************************)
\* if node not in graph: graph[node] = []; graph[node].append((other, id))
AddEdge(g, node, other, id) ==
    IF node \in DOMAIN g
    THEN [g EXCEPT ![node] = Append(@, <<other, id>>)]
    ELSE g @@ (node :> << <<other, id>> >>)

\* _build_graph over the first k links, in loading order.
RECURSIVE BuildGraphUpTo(_, _)
BuildGraphUpTo(ls, k) ==
    IF k = 0 THEN << >>
    ELSE LET link == ls[k][2]
             g == BuildGraphUpTo(ls, k - 1)
         IN AddEdge(AddEdge(g, link.start_node, link.end_node, link.id),
                    link.end_node, link.start_node, link.id)

BuildGraph(ls) == BuildGraphUpTo(ls, Len(ls))

\* graph.get(current_node, [])
GraphGet(g, node) == IF node \in DOMAIN g THEN g[node] ELSE <<>>

(***************************************************************************)
(* Path Enumerator.                                                        *)
(***************************************************************************)
\* itertools.permutations(keys, 2): (keys[i], keys[j]) for i, then j # i.
RECURSIVE PairsFrom(_, _, _)
PairsFrom(keys, i, j) ==
    IF i > Len(keys) THEN <<>>
    ELSE IF j > Len(keys) THEN PairsFrom(keys, i + 1, 1)
    ELSE IF i = j THEN PairsFrom(keys, i, j + 1)
    ELSE << <<keys[i], keys[j]>> >> \o PairsFrom(keys, i, j + 1)

Permutations2(keys) == PairsFrom(keys, 1, 1)

\* A plausible slip: the test for a reused link is dropped.
NotInPathDropped(next_link, path) == TRUE

\* next_link not in path
NotInPath(next_link, path) == next_link \notin SeqToSet(path)

\* The for loop over the neighbours of current_node, from neighbour i on:
\* enqueue (neighbor, path + [next_link]) and mark (current_node, neighbor)
\* unless the link is in the path or the node pair is marked already.
RECURSIVE Expand(_, _, _, _, _, _)
Expand(adj, i, current_node, path, q, vis) ==
    IF i > Len(adj) THEN [queue |-> q, visited |-> vis]
    ELSE LET neighbor == adj[i][1]
             next_link == adj[i][2]
         IN IF /\ NotInPath(next_link, path)
               /\ <<current_node, neighbor>> \notin vis
            THEN Expand(adj, i + 1, current_node, path,
                        Append(q, <<neighbor, Append(path, next_link)>>),
                        vis \cup {<<current_node, neighbor>>})
            ELSE Expand(adj, i + 1, current_node, path, q, vis)

(***************************************************************************)
(* Distance Calculator.                                                    *)
(***************************************************************************)
\* sum(self.links[link].length for link in path)
RECURSIVE SumLengths(_, _)
SumLengths(ls, path) ==
    IF path = <<>> THEN 0
    ELSE DictGet(ls, path[1]).length + SumLengths(ls, Tail(path))

\* compute_path_distance
ComputePathDistance(ls, path) ==
    IF path = <<>> THEN 0
    ELSE SumLengths(ls, path)
         - (DictGet(ls, path[1]).length \div 2
            + DictGet(ls, path[Len(path)]).length \div 2)

\* A plausible slip: the largest distance is kept.
RECURSIVE MaxOf(_)
MaxOf(ds) ==
    IF Len(ds) = 1 THEN ds[1]
    ELSE IF ds[1] >= MaxOf(Tail(ds)) THEN ds[1] ELSE MaxOf(Tail(ds))

\* min(distances) of a non-empty list.
RECURSIVE MinOf(_)
MinOf(ds) ==
    IF Len(ds) = 1 THEN ds[1]
    ELSE IF ds[1] <= MinOf(Tail(ds)) THEN ds[1] ELSE MinOf(Tail(ds))

\* The loop of compute_shortest_distances over the first k items of
\* self.paths, writing into the distances dict d.
RECURSIVE ShortestDistancesUpTo(_, _, _, _)
ShortestDistancesUpTo(ls, ps, k, d) ==
    IF k = 0 THEN d
    ELSE LET before == ShortestDistancesUpTo(ls, ps, k - 1, d)
             link_pair == ps[k][1]
             pathlist == ps[k][2]
         IN IF pathlist # <<>>
            THEN DictSet(before, link_pair,
                         MinOf([i \in 1..Len(pathlist) |->
                                   ComputePathDistance(ls, pathlist[i])]))
            ELSE before

(***************************************************************************)
(* Matrix Assembler.                                                       *)
(***************************************************************************)
\* pd.DataFrame(0.0, index=labels, columns=labels)
DataFrame(fill, labels) ==
    [index |-> labels,
     at |-> [rc \in SeqToSet(labels) \X SeqToSet(labels) |-> fill]]

\* A plausible slip: only the entry [row, col] is written.
WriteOneWay(m, row, col, distance) ==
    [m EXCEPT !.at[<<row, col>>] = distance]

\* m.at[row, col] = distance; m.at[col, row] = distance
WriteBothWays(m, row, col, distance) ==
    [m EXCEPT !.at[<<row, col>>] = distance, !.at[<<col, row>>] = distance]

\* enumerate(unique_links) inverted: the 0-based position of a label.
IndexOf(labels, link_id) ==
    (CHOOSE i \in 1..Len(labels) : labels[i] = link_id) - 1

\* The loop filling the identifier-indexed matrix from the first k items
\* of self.distances, in dict order.
RECURSIVE FillIdMatrix(_, _, _)
FillIdMatrix(m, d, k) ==
    IF k = 0 THEN m
    ELSE WriteBothWays(FillIdMatrix(m, d, k - 1),
                       d[k][1][1], d[k][1][2], d[k][2])

\* The loop filling the index-indexed matrix through id_to_index.
RECURSIVE FillIndexMatrix(_, _, _, _)
FillIndexMatrix(m, d, k, unique_links) ==
    IF k = 0 THEN m
    ELSE WriteBothWays(FillIndexMatrix(m, d, k - 1, unique_links),
                       IndexOf(unique_links, d[k][1][1]),
                       IndexOf(unique_links, d[k][1][2]), d[k][2])

(***************************************************************************)
(* The paths file.                                                         *)
(***************************************************************************)
\* f"{key[0]},{key[1]}"
FormatKey(key) == key[1] \o <<",">> \o key[2]

\* tuple(key.split(','))
ParseKey(str) == Split(str, ",")

(***************************************************************************)
(* Operations.                                                             *)
(***************************************************************************)
\* __init__: empty dicts; no file, graph or matrix exists yet (the empty
\* values of graph, file and the matrices stand for "not created").
Init ==
    /\ pc = "created"
    /\ links = <<>>
    /\ link_indices = <<>>
    /\ graph = << >>
    /\ pair_index = 0
    /\ queue = <<>>
    /\ visited = {}
    /\ found = <<>>
    /\ paths = <<>>
    /\ file = <<>>
    /\ distances = <<>>
    /\ id_matrix = DataFrame(0, <<>>)
    /\ index_matrix = DataFrame(0, <<>>)
    /\ index_to_id = <<>>

\* load_network: one NetworkLink per link of the project, in index order.
\* The project file decides the identifiers, end nodes and lengths.
LoadNetwork(idseqs, lens) ==
    /\ pc = "created"
    /\ \E ids \in idseqs :
         \E ends \in NodeSeqs(2 * Len(ids)), ls \in [1..Len(ids) -> lens] :
           /\ links' = [i \in 1..Len(ids) |->
                          <<ids[i], NetworkLink(ids[i], ends[2 * i - 1],
                                                ends[2 * i], ls[i])>>]
           /\ link_indices' = [i \in 1..Len(ids) |-> <<i, ids[i]>>]
    /\ pc' = "loaded"
    /\ UNCHANGED <<graph, pair_index, queue, visited, found, paths, file,
                   distances, id_matrix, index_matrix, index_to_id>>

\* find_all_paths, up to the head of its for loop.
FindAllPaths ==
    /\ pc = "loaded"
    /\ graph' = BuildGraph(links)
    /\ pair_index' = 1
    /\ pc' = "for"
    /\ UNCHANGED <<links, link_indices,
                   queue, visited, found, paths, file, distances,
                   id_matrix, index_matrix, index_to_id>>

\* The (start_link, end_link) of the current iteration.
CurrentPair == Permutations2(DictKeys(links))[pair_index]

\* bfs_paths(start_link, end_link), up to the head of its while loop.
BfsCall ==
    /\ pc = "for"
    /\ pair_index <= Len(Permutations2(DictKeys(links)))
    /\ LET start_link_data == DictGet(links, CurrentPair[1])
       IN queue' = << <<start_link_data.start_node, <<CurrentPair[1]>> >>,
                      <<start_link_data.end_node, <<CurrentPair[1]>> >> >>
    /\ visited' = {}
    /\ found' = <<>>
    /\ pc' = "while"
    /\ UNCHANGED <<links, link_indices,
                   graph, pair_index, paths, file, distances,
                   id_matrix, index_matrix, index_to_id>>

\* A plausible slip: the entry is read but stays in the queue.
PopLeave(q) == q

\* queue.pop(0): what is left of the queue.
PopRest(q) == Tail(q)

\* One iteration of the while loop of bfs_paths.
BfsWhile ==
    /\ pc = "while"
    /\ queue # <<>>
    /\ LET current_node == queue[1][1]
           path == queue[1][2]
           rest == PopRest(queue)
       IN IF path[Len(path)] = CurrentPair[2]
          THEN /\ found' = Append(found, path)
               /\ queue' = rest
               /\ UNCHANGED visited
          ELSE LET r == Expand(GraphGet(graph, current_node), 1,
                               current_node, path, rest, visited)
               IN /\ queue' = r.queue
                  /\ visited' = r.visited
                  /\ UNCHANGED found
    /\ UNCHANGED <<pc, links, link_indices,
                   graph, pair_index, paths, file, distances,
                   id_matrix, index_matrix, index_to_id>>

\* bfs_paths returns; self.paths[(start_link, end_link)] = its result.
BfsReturn ==
    /\ pc = "while"
    /\ queue = <<>>
    /\ paths' = DictSet(paths, CurrentPair, found)
    /\ pair_index' = pair_index + 1
    /\ pc' = "for"
    /\ UNCHANGED <<links, link_indices,
                   graph, queue, visited, found, file, distances,
                   id_matrix, index_matrix, index_to_id>>

\* The for loop is exhausted: find_all_paths returns.
FindAllPathsReturn ==
    /\ pc = "for"
    /\ pair_index > Len(Permutations2(DictKeys(links)))
    /\ pc' = "found"
    /\ UNCHANGED <<links, link_indices,
                   graph, pair_index, queue, visited, found, paths,
                   file, distances, id_matrix, index_matrix, index_to_id>>

\* save_paths: the dict with string keys is written as JSON.
SavePaths ==
    /\ pc = "found"
    /\ file' = DictFrom([i \in 1..Len(paths) |->
                           <<FormatKey(paths[i][1]), paths[i][2]>>])
    /\ pc' = "saved"
    /\ UNCHANGED <<links, link_indices,
                   graph, pair_index, queue, visited, found, paths,
                   distances, id_matrix, index_matrix, index_to_id>>

\* load_paths: self.paths is replaced by the parsed file.
LoadPaths ==
    /\ pc = "saved"
    /\ paths' = DictFrom([i \in 1..Len(file) |->
                            <<ParseKey(file[i][1]), file[i][2]>>])
    /\ pc' = "reloaded"
    /\ UNCHANGED <<links, link_indices,
                   graph, pair_index, queue, visited, found, file,
                   distances, id_matrix, index_matrix, index_to_id>>

\* compute_shortest_distances
ComputeShortestDistances ==
    /\ pc = "saved"
    /\ distances' = ShortestDistancesUpTo(links, paths, Len(paths), distances)
    /\ pc' = "distances"
    /\ UNCHANGED <<links, link_indices,
                   graph, pair_index, queue, visited, found, paths,
                   file, id_matrix, index_matrix, index_to_id>>

\* create_distance_matrices
CreateDistanceMatrices ==
    /\ pc = "distances"
    /\ LET unique_links == SortedLinks(DictKeys(links))
           num_links == Len(unique_links)
       IN /\ id_matrix' = FillIdMatrix(DataFrame(0, unique_links),
                                       distances, Len(distances))
          /\ index_matrix' =
                FillIndexMatrix(DataFrame(0, [i \in 1..num_links |-> i - 1]),
                                distances, Len(distances), unique_links)
    /\ pc' = "matrices"
    /\ UNCHANGED <<links, link_indices,
                   graph, pair_index, queue, visited, found, paths,
                   file, distances, index_to_id>>

\* save_distance_matrices: the two CSV files carry the matrices as they
\* are; the mapping file is {str(idx): id_matrix.index[idx]}.
SaveDistanceMatrices ==
    /\ pc = "matrices"
    /\ index_to_id' = DictFrom([i \in 1..Len(id_matrix.index) |->
                                  <<ToStr(i - 1), id_matrix.index[i]>>])
    /\ pc' = "done"
    /\ UNCHANGED <<links, link_indices,
                   graph, pair_index, queue, visited, found, paths,
                   file, distances, id_matrix, index_matrix>>

\* The steps of find_all_paths.
FindPaths ==
    \/ FindAllPaths
    \/ BfsCall
    \/ BfsWhile
    \/ BfsReturn
    \/ FindAllPathsReturn

\* What follows the loading of the network.
Analyze ==
    \/ FindPaths
    \/ SavePaths
    \/ LoadPaths
    \/ ComputeShortestDistances
    \/ CreateDistanceMatrices
    \/ SaveDistanceMatrices

\* Networks whose links differ in length, loaded in one order.
Next == LoadNetwork(Prefixes(IdOrder), Lengths) \/ Analyze

Spec == Init /\ [][Next]_vars

\* Networks whose identifiers are loaded in every order.
NextIds == LoadNetwork(Arrangements(IdOrder), UnitLength) \/ Analyze

SpecIds == Init /\ [][NextIds]_vars

\* Networks whose identifiers contain commas.
NextComma == LoadNetwork(Prefixes(CommaIdOrder), UnitLength) \/ Analyze

SpecComma == Init /\ [][NextComma]_vars

\* Networks whose links all have one length, loaded in one order.
NextUnit == LoadNetwork(Prefixes(IdOrder), UnitLength) \/ Analyze

SpecUnit == Init /\ [][NextUnit]_vars

\* find_all_paths is sequential code that waits for nothing: a step of it
\* that can be taken is taken.
FairSpec == SpecUnit /\ WF_vars(FindPaths)

(***************************************************************************)
(* Properties.                                                             *)
(***************************************************************************)
LinkIds == SeqToSet(DictKeys(links))

NumLinks == Len(links)

\* self.paths holds the result of find_all_paths.
PathsMade == pc \in {"found", "saved", "distances", "matrices", "done"}

\* self.distances holds the result of compute_shortest_distances.
DistancesMade == pc \in {"distances", "matrices", "done"}

\* create_distance_matrices has returned the two matrices.
MatricesMade == pc \in {"matrices", "done"}

NoRepeat(p) == \A i, j \in 1..Len(p) : i # j => p[i] # p[j]

LengthOf(id) == DictGet(links, id).length

RECURSIVE TotalLength(_, _)
TotalLength(p, k) == IF k = 0 THEN 0 ELSE TotalLength(p, k - 1) + LengthOf(p[k])

\* Twice the along-path distance between the midpoints of the first and
\* the last link of p: every link counted twice, the two end links once less.
TwicePathDistance(p) == 2 * TotalLength(p, Len(p)) - LengthOf(p[1]) - LengthOf(p[Len(p)])

\* Two links share a node.
Touch(a, b) ==
    {DictGet(links, a).start_node, DictGet(links, a).end_node}
      \cap {DictGet(links, b).start_node, DictGet(links, b).end_node} # {}

\* The simple link-paths from a to b: distinct links, consecutive ones
\* sharing a node.
SimplePaths(a, b) ==
    UNION { {p \in [1..n -> LinkIds] :
                /\ p[1] = a
                /\ p[n] = b
                /\ NoRepeat(p)
                /\ \A i \in 1..(n - 1) : Touch(p[i], p[i + 1])}
            : n \in 2..NumLinks }

\* C1: both matrices returned by create_distance_matrices are symmetric.
C1_MatricesSymmetric ==
    MatricesMade =>
      /\ \A a, b \in LinkIds : id_matrix.at[<<a, b>>] = id_matrix.at[<<b, a>>]
      /\ \A i, j \in 0..(NumLinks - 1) :
            index_matrix.at[<<i, j>>] = index_matrix.at[<<j, i>>]

\* C1: matrices built from a table that holds different distances for
\* (a, b) and (b, a).
C1_Witness ==
    /\ MatricesMade
    /\ \E a, b \in LinkIds :
         /\ DictHas(distances, <<a, b>>)
         /\ DictHas(distances, <<b, a>>)
         /\ DictGet(distances, <<a, b>>) # DictGet(distances, <<b, a>>)
         /\ id_matrix.at[<<a, b>>] # 0

\* C2: a pair whose PathSet entry is empty has 0 in both matrices.
C2_EmptyEntryLeftZero ==
    MatricesMade =>
      \A a, b \in LinkIds :
        (a # b /\ DictGet(paths, <<a, b>>) = <<>>) =>
          /\ id_matrix.at[<<a, b>>] = 0
          /\ index_matrix.at[<<IndexOf(id_matrix.index, a),
                               IndexOf(id_matrix.index, b)>>] = 0

\* C3: the DistanceTable has an entry exactly for the pairs with a
\* non-empty PathSet entry, and the entry is the least path distance of
\* the recorded paths.
C3_ShortestOfRecorded ==
    DistancesMade =>
      /\ SeqToSet(DictKeys(distances)) \subseteq SeqToSet(DictKeys(paths))
      /\ NoRepeat(DictKeys(distances))
      /\ \A k \in 1..Len(paths) :
           LET ps == paths[k][2]
           IN /\ DictHas(distances, paths[k][1]) <=> ps # <<>>
              /\ ps # <<>> =>
                   LET d == DictGet(distances, paths[k][1])
                   IN /\ \E i \in 1..Len(ps) : 2 * d = TwicePathDistance(ps[i])
                      /\ \A i \in 1..Len(ps) : 2 * d <= TwicePathDistance(ps[i])

\* C3: the table holds an entry for a pair with two recorded paths of
\* different distances.
C3_Witness ==
    /\ DistancesMade
    /\ \E k \in 1..Len(paths) :
         /\ DictHas(distances, paths[k][1])
         /\ \E i, j \in 1..Len(paths[k][2]) :
              TwicePathDistance(paths[k][2][i]) < TwicePathDistance(paths[k][2][j])

\* C4: every call of bfs_paths empties its queue and returns, and
\* find_all_paths completes with an entry for each of the n*(n-1) pairs.
C4_SearchTerminates ==
    /\ (pc = "while") ~> (pc = "while" /\ queue = <<>>)
    /\ (pc = "loaded") ~> (pc = "found" /\ Len(paths) = NumLinks * (NumLinks - 1))

\* C4: all searches are over in a network with a self-loop and two
\* parallel links.
C4_Witness ==
    /\ pc = "found"
    /\ Len(paths) = 6
    /\ \E i \in 1..Len(links) : links[i][2].start_node = links[i][2].end_node
    /\ \E i, j \in 1..Len(links) :
         /\ i # j
         /\ links[i][2].start_node # links[i][2].end_node
         /\ {links[i][2].start_node, links[i][2].end_node}
              = {links[j][2].start_node, links[j][2].end_node}

\* A list of identifiers of loaded links that starts with s and repeats none.
PartialPath(p, s) ==
    /\ Len(p) >= 1
    /\ p[1] = s
    /\ SeqToSet(p) \subseteq LinkIds
    /\ NoRepeat(p)

\* C5: every recorded path runs from its source to its target over loaded
\* links without repeating one, and every queued partial path starts with
\* the source and repeats no link.
C5_PathsWellFormed ==
    /\ PathsMade \/ pc \in {"for", "while"} =>
         \A k \in 1..Len(paths) :
           \A i \in 1..Len(paths[k][2]) :
             LET p == paths[k][2][i]
             IN PartialPath(p, paths[k][1][1]) /\ p[Len(p)] = paths[k][1][2]
    /\ pc = "while" =>
         /\ \A i \in 1..Len(queue) : PartialPath(queue[i][2], CurrentPair[1])
         /\ \A i \in 1..Len(found) :
              PartialPath(found[i], CurrentPair[1])
                /\ found[i][Len(found[i])] = CurrentPair[2]

\* C5: a search in progress that has recorded a path and has a partial
\* path of three links queued, after a search that recorded two paths.
C5_Witness ==
    /\ pc = "while"
    /\ found # <<>>
    /\ \E i \in 1..Len(queue) : Len(queue[i][2]) = 3
    /\ \E k \in 1..Len(paths) : Len(paths[k][2]) >= 2

\* C6: load_paths restores the mapping that save_paths wrote.
C6_RoundTrip == [][pc' = "reloaded" => paths' = paths]_vars

\* C7: the identifier-indexed matrix shows each DistanceTable entry at its
\* own pair.
C7_MatrixShowsEachDistance ==
    MatricesMade =>
      \A k \in 1..Len(distances) :
        id_matrix.at[<<distances[k][1][1], distances[k][1][2]>>] = distances[k][2]

\* Pairs of identifiers in natural order: a digit run counts as a number
\* ("2" before "10") and letters compare without case ("a" before "L").
NaturalOrderExamples ==
    { << <<"L", "2">>, <<"L", "1", "0">> >>,
      << <<"l", "2">>, <<"L", "1", "0">> >>,
      << <<"a", "1">>, <<"L", "2">> >>,
      << <<"a", "1">>, <<"l", "2">> >>,
      << <<"a", "1">>, <<"L", "1", "0">> >> }

\* C8: the index-indexed matrix is the identifier-indexed matrix with its
\* labels, the identifiers in natural sort order, renumbered 0..n-1, and
\* the mapping file sends str(i) to the i-th label.
C8_IndexMatrixRenumbers ==
    MatricesMade =>
      LET s == id_matrix.index
      IN /\ Len(s) = NumLinks
         /\ SeqToSet(s) = LinkIds
         /\ \A i, j \in 1..Len(s) :
              i < j => ~KeyLess(NaturalKey(s[j]), NaturalKey(s[i]))
         /\ \A i, j \in 1..Len(s) :
              <<s[i], s[j]>> \in NaturalOrderExamples => i < j
         /\ index_matrix.index = [i \in 1..NumLinks |-> i - 1]
         /\ \A i, j \in 0..(NumLinks - 1) :
              index_matrix.at[<<i, j>>] = id_matrix.at[<<s[i + 1], s[j + 1]>>]
         /\ pc = "done" =>
              /\ Len(index_to_id) = NumLinks
              /\ \A i \in 0..(NumLinks - 1) :
                   /\ DictHas(index_to_id, ToStr(i))
                   /\ DictGet(index_to_id, ToStr(i)) = s[i + 1]

\* C8: three links loaded in an order that is not the sorted one, "L2"
\* placed before "L10", with two different non-zero distances in the matrix.
C8_Witness ==
    /\ pc = "done"
    /\ NumLinks = 3
    /\ DictKeys(links)[1] = <<"L", "1", "0">>
    /\ id_matrix.index[1] = <<"L", "2">>
    /\ id_matrix.index[3] = <<"L", "1", "0">>
    /\ \E i, j, k \in 0..2 :
         /\ index_matrix.at[<<i, j>>] # 0
         /\ index_matrix.at[<<i, k>>] # 0
         /\ index_matrix.at[<<i, j>>] # index_matrix.at[<<i, k>>]

\* C9: every DistanceTable entry is the least path distance over all
\* simple link-paths between the two links.
C9_RealShortestDistance ==
    DistancesMade =>
      \A k \in 1..Len(distances) :
        \A p \in SimplePaths(distances[k][1][1], distances[k][1][2]) :
          2 * distances[k][2] <= TwicePathDistance(p)

\* C10: two distinct links of one connected component have a recorded
\* path, and the entries of (a, b) and (b, a) are empty together.
C10_EmptyMeansDisconnected ==
    PathsMade =>
      \A a, b \in LinkIds :
        a # b =>
          /\ SimplePaths(a, b) # {} => DictGet(paths, <<a, b>>) # <<>>
          /\ DictGet(paths, <<a, b>>) = <<>> <=> DictGet(paths, <<b, a>>) = <<>>

=============================================================================
